---- MODULE Spec2Model ----
(***************************************************************************)
(* A model of the spotted-star simulator: Simulation (construction from a  *)
(* configuration, check_fill_factor, observe_flux, observe_rv, draw_rgba)  *)
(* and Star::new with its limb integral.                                   *)
(*                                                                         *)
(* f64 values are fixed-point integers.  The three non-finite values that  *)
(* the code can produce (NaN, +inf, -inf) are kept as distinguished values *)
(* and the arithmetic operators below propagate them as IEEE-754 does.     *)
(***************************************************************************)
EXTENDS Integers, Sequences, FiniteSets, TLC

(***************************************************************************)
(* Bounds of the model.                                                    *)
(***************************************************************************)
\* longest time sequence handed to observe_flux / observe_rv
MaxLen == 2
\* largest number of [spot*] sections in the configuration
MaxStatic == 2

(***************************************************************************)
(* f64 arithmetic.                                                         *)
(***************************************************************************)
NaN == -999999
PInf == 999999
NInf == -999998

IsNaN(a) == a = NaN
IsInf(a) == a = PInf \/ a = NInf
Finite(a) == ~IsNaN(a) /\ ~IsInf(a)

FNeg(a) == IF IsNaN(a) THEN NaN
           ELSE IF a = PInf THEN NInf
           ELSE IF a = NInf THEN PInf
           ELSE 0 - a

FAdd(a, b) == IF IsNaN(a) \/ IsNaN(b) THEN NaN
              ELSE IF IsInf(a) /\ IsInf(b) THEN (IF a = b THEN a ELSE NaN)
              ELSE IF IsInf(a) THEN a
              ELSE IF IsInf(b) THEN b
              ELSE a + b

FSub(a, b) == FAdd(a, FNeg(b))

\* a * b where a is a plain count (a as f64) and b a fixed-point value
FMul(a, b) == IF IsNaN(b) THEN NaN
              ELSE IF IsInf(b) THEN (IF a = 0 THEN NaN
                                     ELSE IF a > 0 THEN b ELSE FNeg(b))
              ELSE a * b

\* fixed-point unit of a quotient: FDiv(a, a) = One for finite nonzero a
One == 100

FDiv(a, b) == IF IsNaN(a) \/ IsNaN(b) THEN NaN
              ELSE IF IsInf(a) /\ IsInf(b) THEN NaN
              ELSE IF IsInf(b) THEN 0
              ELSE IF b = 0 THEN (IF a = 0 THEN NaN
                                  ELSE IF a > 0 THEN PInf ELSE NInf)
              ELSE IF IsInf(a) THEN (IF b > 0 THEN a ELSE FNeg(a))
              ELSE (a * One) \div b

\* a < b on f64: every comparison with NaN is false
FLt(a, b) == ~IsNaN(a) /\ ~IsNaN(b) /\ a < b

FAbs(a) == IF IsNaN(a) THEN NaN ELSE IF IsInf(a) THEN PInf
           ELSE IF a < 0 THEN 0 - a ELSE a

\* f64::max: a NaN operand is ignored
FMax(a, b) == IF IsNaN(a) THEN b ELSE IF IsNaN(b) THEN a
              ELSE IF a < b THEN b ELSE a

\* integer square root, rounded down
ISqrt(n) == CHOOSE r \in 0..n : r * r <= n /\ (r + 1) * (r + 1) > n

FSqrt(a) == IF IsNaN(a) \/ a = NInf THEN NaN
            ELSE IF a = PInf THEN PInf
            ELSE IF a < 0 THEN NaN
            ELSE ISqrt(a)

RECURSIVE SumSeq(_)
SumSeq(s) == IF s = <<>> THEN 0 ELSE FAdd(SumSeq(SubSeq(s, 1, Len(s) - 1)), s[Len(s)])

RECURSIVE SelectSeqIdx(_, _)
\* the subsequence of s at the positions in keep, in order
SelectSeqIdx(s, keep) ==
    IF s = <<>> THEN <<>>
    ELSE LET front == SelectSeqIdx(SubSeq(s, 1, Len(s) - 1), keep)
         IN IF Len(s) \in keep THEN Append(front, s[Len(s)]) ELSE front

(***************************************************************************)
(* Reference line profiles (sun_ccfs) and the external numeric primitives. *)
(***************************************************************************)
\* fixed-point unit of the disk coordinates y, z (1.0 = U)
U == 240
SOLAR_RADIUS == 696000
DAYS_TO_SECONDS == 86400

rv == <<-1, 0, 1>>
ccf_quiet == <<10, 4, 10>>
ccf_active == <<10, 6, 10>>

HasNaN(p) == \E k \in 1..Len(p) : IsNaN(p[k])

\* Profile::shift: the profile resampled after a Doppler shift by velocity
ProfileShift(p, velocity) ==
    IF IsNaN(velocity) THEN [k \in 1..Len(p) |-> NaN]
    ELSE IF velocity < 0 THEN [k \in 1..Len(p) |-> IF k < Len(p) THEN p[k + 1] ELSE p[k]]
    ELSE IF velocity > 0 THEN [k \in 1..Len(p) |-> IF k > 1 THEN p[k - 1] ELSE p[k]]
    ELSE p

\* normalize: the profile divided by its largest element
RECURSIVE MaxOf(_)
MaxOf(p) == IF Len(p) = 1 THEN p[1] ELSE FMax(MaxOf(SubSeq(p, 1, Len(p) - 1)), p[Len(p)])

normalize(p) == LET m == MaxOf(p) IN [k \in 1..Len(p) |-> FDiv(p[k], m)]

\* fit_rv: centroid of the line, the mean velocity weighted by line depth
fit_rv(velocity, p) ==
    IF HasNaN(p) THEN NaN
    ELSE LET top == MaxOf(p)
             depth == [k \in 1..Len(p) |-> top - p[k]]
         IN FDiv(SumSeq([k \in 1..Len(p) |-> velocity[k] * depth[k]]), SumSeq(depth))

\* compute_bisector: midpoints between the two wings of the line
compute_bisector(velocity, p) ==
    IF HasNaN(p) THEN <<NaN>>
    ELSE LET deepest == {i \in 1..Len(p) : \A j \in 1..Len(p) : p[i] <= p[j]}
             left == CHOOSE i \in deepest : \A j \in deepest : i <= j
             right == CHOOSE i \in deepest : \A j \in deepest : j <= i
         IN <<(velocity[left] + velocity[right]) \div 2>>

\* planck_integral: band radiance of a blackbody at temperature T
planck_integral(T, wavelength_min, wavelength_max) ==
    (wavelength_max - wavelength_min) * (IF wavelength_min < 7 THEN T * T ELSE T)

(***************************************************************************)
(* Star (src/src/star.rs).                                                 *)
(***************************************************************************)
\* limb_integral with the limb coefficients of the model's configurations
\* (limb_linear = limb_quadratic = 0): the closed form is z_upper - z_lower.
\* The guard is false for a NaN bound, which then reaches the closed form.
limb_integral(z_lower, z_upper, y, limb_linear, limb_quadratic) ==
    IF FLt(FAbs(FSub(z_lower, z_upper)), 1) THEN 0
    ELSE FSub(z_upper, z_lower)

\* 2.0 / grid_size as f64: +inf for grid_size = 0
GridStep(grid_size) == IF grid_size = 0 THEN PInf ELSE (2 * U) \div grid_size

\* the ordinate of step a: (a as f64 * grid_step) - 1.0
Ordinate(a, grid_step) == FSub(FMul(a, grid_step), U)

\* sqrt(1.0 - y * y)
ZBound(y) == IF IsNaN(y) THEN NaN
             ELSE IF IsInf(y) THEN NaN
             ELSE FSqrt(U * U - y * y)

RECURSIVE IntegrateFlux(_, _, _, _)
\* flux_quiet accumulated over the ordinates 0..a
IntegrateFlux(a, grid_size, limb_linear, limb_quadratic) ==
    LET y == Ordinate(a, GridStep(grid_size))
        z_bound == ZBound(y)
        integral == limb_integral(FNeg(z_bound), z_bound, y, limb_linear, limb_quadratic)
    IN IF a = 0 THEN FAdd(0, integral)
       ELSE FAdd(IntegrateFlux(a - 1, grid_size, limb_linear, limb_quadratic), integral)

RECURSIVE IntegrateCcf(_, _, _, _, _)
\* integrated_ccf accumulated over the ordinates 0..a
IntegrateCcf(a, grid_size, equatorial_velocity, limb_linear, limb_quadratic) ==
    LET y == Ordinate(a, GridStep(grid_size))
        z_bound == ZBound(y)
        integral == limb_integral(FNeg(z_bound), z_bound, y, limb_linear, limb_quadratic)
        ccf_shifted == ProfileShift(ccf_quiet, FMul(equatorial_velocity, y))
        before == IF a = 0 THEN [k \in 1..Len(ccf_quiet) |-> 0]
                  ELSE IntegrateCcf(a - 1, grid_size, equatorial_velocity,
                                    limb_linear, limb_quadratic)
    IN [k \in 1..Len(ccf_quiet) |->
            FAdd(before[k], IF IsNaN(integral) \/ IsNaN(ccf_shifted[k]) THEN NaN
                            ELSE ccf_shifted[k] * integral)]

StarNew(radius, period, inclination, temperature, spot_temp_diff, limb_linear, limb_quadratic, grid_size) ==
    LET edge_velocity == (6 * radius * SOLAR_RADIUS) \div (period * DAYS_TO_SECONDS)
        equatorial_velocity == edge_velocity
        integrated_ccf == IntegrateCcf(grid_size, grid_size, equatorial_velocity,
                                       limb_linear, limb_quadratic)
        flux_quiet == IntegrateFlux(grid_size, grid_size, limb_linear, limb_quadratic)
        normalized == normalize(integrated_ccf)
    IN [period |-> period,
        inclination |-> inclination,
        temperature |-> temperature,
        spot_temp_diff |-> spot_temp_diff,
        limb_linear |-> limb_linear,
        limb_quadratic |-> limb_quadratic,
        grid_size |-> grid_size,
        flux_quiet |-> flux_quiet,
        zero_rv |-> fit_rv(rv, normalized),
        equatorial_velocity |-> equatorial_velocity,
        integrated_ccf |-> integrated_ccf]

(***************************************************************************)
(* Spot (spot.rs): the active regions.                                     *)
(***************************************************************************)
\* lifetime of a region created by check_fill_factor, in days
Lifetime == 2
\* fixed-point unit of a relative intensity (1.0 = IOne)
IOne == 16
\* the intensity field of a region that no observation has written yet
InitialIntensity == 0

\* Spot::new; size is the fill factor of the region, radius^2 / 2
SpotNew(star, latitude, longitude, size, plage, mortal) ==
    [latitude |-> latitude,
     longitude |-> longitude,
     radius |-> ISqrt(2 * size),
     temperature |-> IF plage THEN star.temperature + star.spot_temp_diff
                     ELSE star.temperature - star.spot_temp_diff,
     plage |-> plage,
     mortal |-> mortal,
     time_appear |-> IF mortal THEN 0 ELSE NInf,
     time_disappear |-> IF mortal THEN Lifetime ELSE PInf,
     intensity |-> InitialIntensity]

\* Spot::alive
alive(s, time) == s.time_appear <= time /\ time < s.time_disappear

Dist(a, b) == IF a < b THEN b - a ELSE a - b
LongDist(a, b) == IF Dist(a, b) > 180 THEN 360 - Dist(a, b) ELSE Dist(a, b)

\* Spot::collides_with: the bounding shapes of the two regions intersect
collides_with(a, b) ==
    /\ Dist(a.latitude, b.latitude) < a.radius + b.radius
    /\ LongDist(a.longitude, b.longitude) < a.radius + b.radius

\* the longitude of the region as seen at time, after the star's rotation
Phase(s, star, time) == (s.longitude + (time * 360) \div star.period) % 360

Visible(s, star, time) ==
    LET ph == Phase(s, star, time) IN ph < 90 \/ ph > 270

\* Spot::get_flux: the brightness deficit of the region on the visible disk
get_flux(s, star, time) ==
    IF Visible(s, star, time)
    THEN ((s.radius * s.radius) \div 2) * (IOne - s.intensity)
    ELSE 0

\* Spot::get_ccf: the line-profile contribution of the region
get_ccf(s, star, time) ==
    LET ph == Phase(s, star, time)
        bin == IF ph > 270 THEN 1 ELSE IF ph = 0 THEN 2 ELSE 3
    IN [k \in 1..Len(ccf_active) |->
            IF Visible(s, star, time) /\ k = bin
            THEN ((s.radius * s.radius) \div 2) * (IOne - s.intensity)
            ELSE 0]

(***************************************************************************)
(* Simulation (src/rust/src/simulation.rs).                                *)
(***************************************************************************)
VARIABLES
    sim,                  \* "none", "ready" (Simulation::new returned) or "panicked"
    star,                 \* Simulation.star
    spots,                \* Simulation.spots
    dynamic_fill_factor,  \* Simulation.dynamic_fill_factor
    generator,            \* state of the StdRng behind Simulation.generator
    lock,                 \* the RwLock of the generator: "free" or "write"
    pc,                   \* position of the running call: "idle", "grow", "loop", "map"
    call,                 \* the running call: its name and arguments
    i,                    \* index into call.time of the next check_fill_factor call
    grown,                \* the times whose check_fill_factor call has returned
    current_fill_factor,  \* the local of check_fill_factor
    out,                  \* the slots of the collected vector written so far
    done,                 \* the items of the parallel pass that have finished
    ret,                  \* what the last finished call returned (draw_rgba: the pixels)
    last_flux             \* record of the last observe_flux call that returned

vars == <<sim, star, spots, dynamic_fill_factor, generator, lock, pc, call, i, grown,
          current_fill_factor, out, done, ret, last_flux>>

\* ---- the inputs of the model ----
\* grid_resolution is absent from the [star] section
GridMissing == -1
\* grid_resolution: absent, 0 (2.0 / 0), 1 (both ordinates on the limb), 2
GridSizes == {GridMissing, 0, 1, 2}
FillFactors == {0, 4}
Lats == {0}
Longs == {0, 5}
\* sizes the log-normal sample (times 9.4e-6) can take; 18 is above the cutoff
Sizes == {2, 8, 18}
\* the cutoff 0.001 of the size sample
SizeCutoff == 10
Times == {0, 3}
\* the bands [wavelength_min, wavelength_max]; <<4, 7>> is the visible band
Bands == {<<4, 7>>, <<7, 10>>}
Sections == {[latitude |-> 0, longitude |-> 0, size |-> 2, plage |-> FALSE],
             [latitude |-> 0, longitude |-> 180, size |-> 8, plage |-> TRUE]}
\* number of distinct states of the random generator kept apart
GenPeriod == 2

SeqsUpTo(S, n) == UNION {[1..k -> S] : k \in 0..n}

NoCall == [op |-> "none", time |-> <<>>, wavelength_min |-> 0, wavelength_max |-> 0]
NoRet == [op |-> "none", time |-> <<>>, wavelength_min |-> 0, wavelength_max |-> 0,
          result |-> <<>>]
NoRecord == [valid |-> FALSE, time |-> <<>>, wavelength_min |-> 0, wavelength_max |-> 0,
             result |-> <<>>, spots |-> <<>>, generator |-> 0]
NoStar == StarNew(1, 1, 0, 0, 0, 0, 0, 1)

Init ==
    /\ sim = "none"
    /\ star = NoStar
    /\ spots = <<>>
    /\ dynamic_fill_factor = 0
    /\ generator = 0
    /\ lock = "free"
    /\ pc = "idle"
    /\ call = NoCall
    /\ i = 1
    /\ grown = <<>>
    /\ current_fill_factor = 0
    /\ out = <<>>
    /\ done = {}
    /\ ret = NoRet
    /\ last_flux = NoRecord

\* ---- Simulation::new ----
\* get!(..., "grid_resolution", usize): a missing field reads the default string
\* "1.0", which does not parse as usize: an error is recorded and 0 is used
ParseGrid(field) == IF field = GridMissing THEN [value |-> 0, error |-> TRUE]
                    ELSE [value |-> field, error |-> FALSE]

StaticSpots(st, sections) ==
    [k \in 1..Len(sections) |->
        SpotNew(st, sections[k].latitude, sections[k].longitude, sections[k].size,
                sections[k].plage, FALSE)]

New(grid_field, fillfactor, sections) ==
    /\ sim = "none"
    /\ LET grid == ParseGrid(grid_field)
           st == StarNew(1, 2, 90, 4, 1, 0, 0, grid.value)
       IN IF grid.error
          THEN /\ sim' = "panicked"
               /\ UNCHANGED <<star, spots, dynamic_fill_factor>>
          ELSE /\ sim' = "ready"
               /\ star' = st
               /\ spots' = StaticSpots(st, sections)
               /\ dynamic_fill_factor' = fillfactor
    /\ UNCHANGED <<generator, lock, pc, call, i, grown, current_fill_factor, out, done,
                   ret, last_flux>>

\* ---- the intensity loop of observe_flux, observe_rv and draw_rgba ----
RelativeIntensity(s, st, wavelength_min, wavelength_max) ==
    (planck_integral(s.temperature, wavelength_min, wavelength_max) * IOne)
        \div planck_integral(st.temperature, wavelength_min, wavelength_max)

SetIntensities(v, st, wavelength_min, wavelength_max) ==
    [k \in 1..Len(v) |->
        [v[k] EXCEPT !.intensity = RelativeIntensity(v[k], st, wavelength_min, wavelength_max)]]

\* ---- check_fill_factor ----
RECURSIVE AreaSum(_)
\* sum of radius^2 / 2 over a sequence of regions
AreaSum(v) == IF v = <<>> THEN 0
              ELSE AreaSum(SubSeq(v, 1, Len(v) - 1)) + (v[Len(v)].radius * v[Len(v)].radius) \div 2

\* (mutant) the coverage summed without the alive(time) filter
CurrentFillFactorUnfiltered(v, time) == AreaSum(v)

\* the coverage computed on entry
CurrentFillFactor(v, time) ==
    AreaSum(SelectSeqIdx(v, {k \in 1..Len(v) : alive(v[k], time)}))

\* (mutant) the test with <= for <
AtOrBelowTarget(current, target) == current <= target

\* the test of the if and of the while
BelowTarget(current, target) == current < target

\* the candidate region of one iteration
Candidate(st, latitude, longitude, size, time) ==
    LET new_spot == SpotNew(st, latitude, longitude, size, FALSE, TRUE)
    IN [new_spot EXCEPT !.time_appear = @ + time, !.time_disappear = @ + time]

\* (mutant) the candidate is tested against every region, alive or not
CollidesUnfiltered(v, new_spot) ==
    \E k \in 1..Len(v) : collides_with(new_spot, v[k])

\* the any() over the regions alive at either end of the candidate's lifetime
Collides(v, new_spot) ==
    \E k \in 1..Len(v) :
        /\ alive(v[k], new_spot.time_appear) \/ alive(v[k], new_spot.time_disappear)
        /\ collides_with(new_spot, v[k])

\* (mutant) the new region takes the slot of a region that is no longer alive
PushReusing(v, new_spot) ==
    LET dead == {k \in 1..Len(v) : ~alive(v[k], new_spot.time_appear)}
    IN IF dead = {} THEN Append(v, new_spot)
       ELSE [v EXCEPT ![CHOOSE k \in dead : \A j \in dead : k <= j] = new_spot]

\* self.spots.push(new_spot)
Push(v, new_spot) == Append(v, new_spot)

\* one draw from the generator
Draw(g) == (g + 1) % GenPeriod

\* (mutant) the loop over time stops one element early
GrowthDoneEarly(next, n) == next >= n

\* the loops over time that call check_fill_factor have run to their end
GrowthDone(next, n) == next > n

\* entry of check_fill_factor(time): the coverage, the test and the write lock
CheckFillFactor ==
    /\ pc = "grow"
    /\ ~GrowthDone(i, Len(call.time))
    /\ LET time == call.time[i]
           current == CurrentFillFactor(spots, time)
       IN IF BelowTarget(current, dynamic_fill_factor)
          THEN /\ lock = "free"
               /\ lock' = "write"
               /\ pc' = "loop"
               /\ current_fill_factor' = current
               /\ UNCHANGED <<i, grown>>
          ELSE /\ i' = i + 1
               /\ grown' = Append(grown, time)
               /\ UNCHANGED <<lock, pc, current_fill_factor>>
    /\ UNCHANGED <<sim, star, spots, dynamic_fill_factor, generator, call, out, done, ret,
                   last_flux>>

\* a size sample at or above the cutoff: find() draws again
SampleRejected(size) ==
    /\ pc = "loop"
    /\ BelowTarget(current_fill_factor, dynamic_fill_factor)
    /\ ~(size < SizeCutoff)
    /\ generator' = Draw(generator)
    /\ UNCHANGED <<sim, star, spots, dynamic_fill_factor, lock, pc, call, i, grown,
                   current_fill_factor, out, done, ret, last_flux>>

\* one iteration of the while loop from the accepted size sample on
GrowStep(size, latitude, longitude) ==
    /\ pc = "loop"
    /\ BelowTarget(current_fill_factor, dynamic_fill_factor)
    /\ size < SizeCutoff
    /\ generator' = Draw(Draw(Draw(generator)))
    /\ LET new_spot == Candidate(star, latitude, longitude, size, call.time[i])
       IN IF ~Collides(spots, new_spot)
          THEN /\ current_fill_factor' =
                      current_fill_factor + (new_spot.radius * new_spot.radius) \div 2
               /\ spots' = Push(spots, new_spot)
          ELSE UNCHANGED <<current_fill_factor, spots>>
    /\ UNCHANGED <<sim, star, dynamic_fill_factor, lock, pc, call, i, grown, out, done,
                   ret, last_flux>>

\* the while loop ends, the write guard is dropped, check_fill_factor returns
GrowReturn ==
    /\ pc = "loop"
    /\ ~BelowTarget(current_fill_factor, dynamic_fill_factor)
    /\ lock' = "free"
    /\ pc' = "grow"
    /\ i' = i + 1
    /\ grown' = Append(grown, call.time[i])
    /\ current_fill_factor' = 0
    /\ UNCHANGED <<sim, star, spots, dynamic_fill_factor, generator, call,
                   out, done, ret, last_flux>>

\* ---- observe_flux and observe_rv ----
\* the closure of observe_flux's parallel map
FluxAt(v, st, time) ==
    LET spot_flux == SumSeq([k \in 1..Len(v) |-> get_flux(v[k], st, time)])
    IN FDiv(FSub(st.flux_quiet, spot_flux), st.flux_quiet)

RECURSIVE AddProfiles(_, _, _)
\* the profile buffer after the regions v[1..n] that are alive have been added
AddProfiles(v, st, time) ==
    IF v = <<>> THEN [k \in 1..Len(ccf_active) |-> 0]
    ELSE LET before == AddProfiles(SubSeq(v, 1, Len(v) - 1), st, time)
             s == v[Len(v)]
         IN IF alive(s, time)
            THEN [k \in 1..Len(ccf_active) |-> FAdd(before[k], get_ccf(s, st, time)[k])]
            ELSE before

\* the closure of observe_rv's parallel map
ObservationAt(v, st, time) ==
    LET total == AddProfiles(v, st, time)
        spot_profile == [k \in 1..Len(total) |-> FSub(st.integrated_ccf[k], total[k])]
        bis == compute_bisector(rv, spot_profile)
    IN [rv |-> FSub(fit_rv(rv, spot_profile), st.zero_rv),
        bisector |-> [k \in 1..Len(bis) |-> FSub(bis[k], st.zero_rv)]]

ObservableAt(op, v, st, time) ==
    IF op = "flux" THEN FluxAt(v, st, time) ELSE ObservationAt(v, st, time)

\* (mutant) the items are collected in the order in which they complete
SlotByCompletion(k, finished) == finished + 1

\* the slot of the collected vector that the item at position k is written to
\* (finished: the number of items that completed before it)
SlotOf(k, finished) == k

\* the record is of a call of this operation with these arguments
SameCall(r, op, time, band) ==
    /\ r.valid
    /\ op = "flux"
    /\ r.time = time
    /\ r.wavelength_min = band[1]
    /\ r.wavelength_max = band[2]

Observe(op, time, band) ==
    /\ sim = "ready"
    /\ pc = "idle"
    /\ spots' = SetIntensities(spots, star, band[1], band[2])
    /\ call' = [op |-> op, time |-> time, wavelength_min |-> band[1],
                wavelength_max |-> band[2]]
    /\ pc' = "grow"
    /\ i' = 1
    /\ grown' = <<>>
    /\ out' = <<>>
    /\ done' = {}
    /\ ret' = NoRet
    /\ last_flux' = IF SameCall(last_flux, op, time, band) THEN last_flux ELSE NoRecord
    /\ UNCHANGED <<sim, star, dynamic_fill_factor, generator, lock, current_fill_factor>>

observe_flux(time, band) == Observe("flux", time, band)

observe_rv(time, band) == Observe("rv", time, band)

\* time.par_iter() starts: the workers take over
ParStart ==
    /\ pc = "grow"
    /\ call.op \in {"flux", "rv"}
    /\ GrowthDone(i, Len(call.time))
    /\ pc' = "map"
    /\ UNCHANGED <<sim, star, spots, dynamic_fill_factor, generator, lock, call, i, grown,
                   current_fill_factor, out, done, ret, last_flux>>

\* a worker maps the item at position k, in whatever order the pool picks
Worker(k) ==
    /\ pc = "map"
    /\ k \in 1..Len(call.time)
    /\ k \notin done
    /\ out' = (SlotOf(k, Cardinality(done)) :> ObservableAt(call.op, spots, star, call.time[k]))
                  @@ out
    /\ done' = done \cup {k}
    /\ UNCHANGED <<sim, star, spots, dynamic_fill_factor, generator, lock, pc, call, i,
                   grown, current_fill_factor, ret, last_flux>>

FluxRecord(r) ==
    [valid |-> TRUE, time |-> r.time, wavelength_min |-> r.wavelength_min,
     wavelength_max |-> r.wavelength_max, result |-> r.result, spots |-> spots,
     generator |-> generator]

\* collect(): the call returns the vector
Collect ==
    /\ pc = "map"
    /\ done = 1..Len(call.time)
    /\ LET r == [op |-> call.op, time |-> call.time,
                 wavelength_min |-> call.wavelength_min,
                 wavelength_max |-> call.wavelength_max,
                 result |-> [k \in 1..Len(call.time) |-> out[k]]]
       IN /\ ret' = r
          /\ IF call.op = "flux" /\ dynamic_fill_factor = 0
             THEN last_flux' = FluxRecord(r)
             ELSE UNCHANGED last_flux
    /\ pc' = "idle"
    /\ call' = NoCall
    /\ out' = <<>>
    /\ done' = {}
    /\ i' = 1
    /\ grown' = <<>>
    /\ UNCHANGED <<sim, star, spots, dynamic_fill_factor, generator, lock,
                   current_fill_factor>>

\* ---- draw_rgba ----
\* f64 as u8
AsU8(x) == IF x < 0 THEN 0 ELSE IF x > 255 THEN 255 ELSE x

RECURSIVE Paint(_, _, _)
\* the pixels written for the regions of v that are alive, later regions last
Paint(v, st, time) ==
    IF v = <<>> THEN <<>>
    ELSE LET before == Paint(SubSeq(v, 1, Len(v) - 1), st, time)
             s == v[Len(v)]
         IN IF alive(s, time) /\ Visible(s, st, time)
            THEN (Phase(s, st, time) :> <<AsU8((s.intensity * 255) \div IOne),
                                          AsU8((s.intensity * 131) \div IOne), 0, 255>>)
                     @@ before
            ELSE before

draw_rgba(time) ==
    /\ sim = "ready"
    /\ pc = "idle"
    /\ call' = [op |-> "draw", time |-> <<time>>, wavelength_min |-> 4, wavelength_max |-> 7]
    /\ pc' = "grow"
    /\ i' = 1
    /\ grown' = <<>>
    /\ ret' = NoRet
    /\ last_flux' = NoRecord
    /\ UNCHANGED <<sim, star, spots, dynamic_fill_factor, generator, lock,
                   current_fill_factor, out, done>>

\* draw_rgba after its check_fill_factor call: the intensities, then the pixels
DrawPixels ==
    /\ pc = "grow"
    /\ call.op = "draw"
    /\ GrowthDone(i, Len(call.time))
    /\ LET lit == SetIntensities(spots, star, 4, 7)
       IN /\ spots' = lit
          /\ ret' = [op |-> "draw", time |-> call.time, wavelength_min |-> 4,
                     wavelength_max |-> 7, result |-> Paint(lit, star, call.time[1])]
    /\ pc' = "idle"
    /\ call' = NoCall
    /\ i' = 1
    /\ grown' = <<>>
    /\ UNCHANGED <<sim, star, dynamic_fill_factor, generator, lock,
                   current_fill_factor, out, done, last_flux>>

Next ==
    \/ \E g \in GridSizes, f \in FillFactors, sections \in SeqsUpTo(Sections, MaxStatic) :
           New(g, f, sections)
    \/ \E time \in SeqsUpTo(Times, MaxLen), band \in Bands : observe_flux(time, band)
    \/ \E time \in SeqsUpTo(Times, MaxLen), band \in Bands : observe_rv(time, band)
    \/ \E time \in Times : draw_rgba(time)
    \/ CheckFillFactor
    \/ \E size \in Sizes : SampleRejected(size)
    \/ \E size \in Sizes, latitude \in Lats, longitude \in Longs :
           GrowStep(size, latitude, longitude)
    \/ GrowReturn
    \/ ParStart
    \/ \E k \in 1..MaxLen : Worker(k)
    \/ Collect
    \/ DrawPixels

Spec == Init /\ [][Next]_vars

(***************************************************************************)
(* The same program under fair scheduling and fair sampling, with a target *)
(* fill factor that the regions the sampler can place never reach.         *)
(***************************************************************************)
\* a target above the coverage of any set of non-colliding candidates
UnreachableFillFactor == 20
FairFillFactors == {4, UnreachableFillFactor}

NextFair ==
    \/ \E f \in FairFillFactors, sections \in SeqsUpTo(Sections, MaxStatic) :
           New(2, f, sections)
    \/ \E time \in SeqsUpTo(Times, MaxLen) : observe_flux(time, <<4, 7>>)
    \/ \E time \in SeqsUpTo(Times, MaxLen) : observe_rv(time, <<7, 10>>)
    \/ \E time \in Times : draw_rgba(time)
    \/ CheckFillFactor
    \/ \E size \in Sizes : SampleRejected(size)
    \/ \E size \in Sizes, latitude \in Lats, longitude \in Longs :
           GrowStep(size, latitude, longitude)
    \/ GrowReturn
    \/ ParStart
    \/ \E k \in 1..MaxLen : Worker(k)
    \/ Collect
    \/ DrawPixels

\* the item at position k is waiting for a worker (Worker(k) is enabled: its step
\* always adds k to done)
Waiting(k) ==
    /\ pc = "map"
    /\ k \in 1..Len(call.time)
    /\ k \notin done

\* a running call is never suspended: the sequential code takes its next step
\* and the pool runs every item; every value the sampler can return with
\* positive probability is returned again and again
Fairness ==
    /\ WF_vars(CheckFillFactor)
    /\ WF_vars(GrowReturn)
    /\ WF_vars(ParStart)
    /\ WF_vars(Collect)
    /\ WF_vars(DrawPixels)
    /\ \A k \in 1..MaxLen : []<>~Waiting(k) \/ []<><<Worker(k)>>_vars
    /\ \A size \in Sizes, latitude \in Lats, longitude \in Longs :
           WF_vars(GrowStep(size, latitude, longitude))

SpecFair == Init /\ [][NextFair]_vars /\ Fairness

(***************************************************************************)
(* Properties.                                                             *)
(***************************************************************************)
\* the two lifetime windows share a time
LifetimesMeet(a, b) ==
    /\ a.time_appear < b.time_disappear
    /\ b.time_appear < a.time_disappear

RECURSIVE CoverageOver(_, _, _)
\* sum of radius^2 / 2 over the regions v[1..n] alive at time
CoverageOver(v, n, time) ==
    IF n = 0 THEN 0
    ELSE CoverageOver(v, n - 1, time)
         + (IF v[n].time_appear <= time /\ time < v[n].time_disappear
            THEN (v[n].radius * v[n].radius) \div 2 ELSE 0)

CoverageAt(v, time) == CoverageOver(v, Len(v), time)

\* C1: no-overlap invariant.  Once the Simulation is constructed, no two distinct
\* regions of the collection whose lifetimes share a time collide.
C1_NoOverlap ==
    sim = "ready" =>
        \A a, b \in 1..Len(spots) :
            (a # b /\ LifetimesMeet(spots[a], spots[b]))
                => ~collides_with(spots[a], spots[b])

\* C2: whenever check_fill_factor(t) returns, the coverage of the regions alive at
\* t is at least the dynamic fill factor, and the running coverage the loop tested
\* is the coverage alive at t.
C2_CoverageOnReturn ==
    [][(i' = i + 1) =>
          /\ CoverageAt(spots', call.time[i]) >= dynamic_fill_factor
          /\ (pc = "loop" => current_fill_factor = CoverageAt(spots, call.time[i]))]_vars

C2_Witness ==
    /\ pc = "grow"
    /\ i = 3
    /\ dynamic_fill_factor > 0
    /\ call.time[1] # call.time[2]
    /\ \E k \in 1..Len(spots) : spots[k].mortal /\ spots[k].time_appear = call.time[2]
    /\ \E k \in 1..Len(spots) : spots[k].mortal /\ ~alive(spots[k], call.time[2])
    /\ CoverageAt(spots, call.time[2]) >= dynamic_fill_factor

\* C3: observe_flux and observe_rv return one element per input time, the i-th
\* being the observable of the i-th time, whatever order the workers finish in.
C3_ResultsInInputOrder ==
    (pc = "idle" /\ ret.op \in {"flux", "rv"}) =>
        /\ DOMAIN ret.result = 1..Len(ret.time)
        /\ \A k \in 1..Len(ret.time) :
               ret.result[k] = ObservableAt(ret.op, spots, star, ret.time[k])

C3_Witness ==
    /\ pc = "idle"
    /\ ret.op = "flux"
    /\ Len(ret.time) = 2
    /\ ret.result[1] # ret.result[2]
    /\ ret.result[1] = FluxAt(spots, star, ret.time[1])

\* the flux the specification gives: only the regions alive at time contribute
FluxOfAlive(v, st, time) ==
    LET spot_flux == SumSeq([k \in 1..Len(v) |->
                                IF alive(v[k], time) THEN get_flux(v[k], st, time) ELSE 0])
    IN FDiv(FSub(st.flux_quiet, spot_flux), st.flux_quiet)

\* C4: every element observe_flux returns is (quiet_flux - sum of the flux of the
\* regions alive at t) / quiet_flux: a region not alive at t contributes nothing.
C4_FluxOfAliveOnly ==
    (pc = "idle" /\ ret.op = "flux") =>
        \A k \in 1..Len(ret.time) :
            ret.result[k] = FluxOfAlive(spots, star, ret.time[k])

\* C5: with no static spot and dynamic fill factor 0 the collection stays empty
\* and observe_flux returns exactly 1.0 for every time.
C5_QuietFluxIsOne ==
    (sim = "ready" /\ dynamic_fill_factor = 0
        /\ \A k \in 1..Len(spots) : spots[k].mortal) =>
        /\ spots = <<>>
        /\ (pc = "idle" /\ ret.op = "flux") =>
               \A k \in 1..Len(ret.time) : ret.result[k] = One

\* C6: with dynamic fill factor 0, an observe_flux call that repeats the previous
\* observe_flux call (same times, same band) returns the same results and leaves
\* the same collection and the same generator state.
C6_Idempotent ==
    [][(/\ pc = "map" /\ pc' = "idle"
        /\ call.op = "flux"
        /\ dynamic_fill_factor = 0
        /\ SameCall(last_flux, call.op, call.time,
                    <<call.wavelength_min, call.wavelength_max>>)) =>
          /\ ret'.result = last_flux.result
          /\ spots' = last_flux.spots
          /\ generator' = last_flux.generator]_vars

C6_Witness ==
    /\ pc = "map"
    /\ call.op = "flux"
    /\ dynamic_fill_factor = 0
    /\ last_flux.valid
    /\ Len(call.time) = 2
    /\ done = 1..2
    /\ Len(spots) > 0
    /\ \A k \in 1..2 : out[k] = last_flux.result[k]
    /\ out[1] # out[2]

\* C7: construction with grid resolution 0 never yields a Simulation.
C7_GridZeroNotConstructed == ~(sim = "ready" /\ star.grid_size = 0)

\* C8: when the parallel pass of observe_flux / observe_rv starts, every region
\* of the collection has the relative intensity of the requested band.
C8_IntensitiesOfBand ==
    pc = "map" =>
        \A k \in 1..Len(spots) :
            spots[k].intensity =
                RelativeIntensity(spots[k], star, call.wavelength_min, call.wavelength_max)

\* C9: every check_fill_factor call of the batch, one per input time in input
\* order, has returned before the parallel pass, and during the pass the
\* collection is not mutated and the generator is neither locked nor changed.
C9_GrowThenMap ==
    /\ [](pc = "map" => (grown = call.time /\ lock = "free"))
    /\ [][pc = "map" => (spots' = spots /\ generator' = generator /\ lock' = lock)]_vars

C9_Witness ==
    /\ pc = "map"
    /\ Cardinality(done) = 1
    /\ Len(call.time) = 2
    /\ grown = call.time
    /\ \E k \in 1..Len(spots) : spots[k].mortal /\ spots[k].time_appear = call.time[2]
    /\ generator # 0

\* a region without its relative intensity
Frame(s) == [s EXCEPT !.intensity = 0]

\* C10: the collection is append-only: every step keeps the regions it had, in
\* place, with position, size, plage flag and lifetime unchanged.
C10_AppendOnly ==
    [][/\ Len(spots') >= Len(spots)
       /\ \A k \in 1..Len(spots) : Frame(spots'[k]) = Frame(spots[k])]_vars

C10_Witness ==
    /\ Len(spots) >= 3
    /\ ~spots[1].mortal
    /\ spots[1].intensity # InitialIntensity
    /\ \E k \in 1..Len(spots) : spots[k].mortal /\ spots[k].intensity # InitialIntensity
    /\ \E k, j \in 1..Len(spots) : spots[k].mortal /\ spots[j].mortal
                                      /\ ~LifetimesMeet(spots[k], spots[j])

\* some candidate the sampler can return could still be accepted
CanPlace ==
    \E size \in Sizes, latitude \in Lats, longitude \in Longs :
        /\ size < SizeCutoff
        /\ LET c == Candidate(star, latitude, longitude, size, call.time[i])
           IN \A k \in 1..Len(spots) :
                  (alive(spots[k], c.time_appear) \/ alive(spots[k], c.time_disappear))
                      => ~collides_with(c, spots[k])

\* the growth loop is below its target and every candidate collides
Saturated ==
    /\ pc = "loop"
    /\ current_fill_factor < dynamic_fill_factor
    /\ ~CanPlace

\* C11 (as claimed): every call runs to completion: under fair sampling every
\* check_fill_factor call leaves its growth loop, for every target fill factor
\* and every region set.
C11_EveryCallCompletes == (pc # "idle") ~> (pc = "idle")

\* C11 (amended): a call runs to completion unless its growth loop reaches a
\* state below the target in which every candidate the sampler can return
\* collides with a region alive at an end of its lifetime; from there on the
\* loop never exits.
C11_CompletesUnlessSaturated ==
    /\ (pc # "idle") ~> (pc = "idle" \/ Saturated)
    /\ [][Saturated => Saturated']_vars

C11_Witness ==
    /\ pc = "idle"
    /\ ret.op = "draw"
    /\ dynamic_fill_factor > 0
    /\ Len(spots) >= 2
    /\ \A k \in 1..Len(spots) : spots[k].mortal
    /\ generator # 0

====
